---- MODULE Spec2Model ----
(***************************************************************************)
(* State-space construction (set_up_kalman_filter) and the filtering loop  *)
(* with MA lookahead injection (kalman_filter) of src/src/filter.py.       *)
(*                                                                         *)
(* Names are sequences of one-character strings so that Python's substring *)
(* test ('ar.' in col) and f-string formatting (f'ar.L{i}') are computed.  *)
(* Arrays are 1-based sequences; Python index j is element j + 1.          *)
(* The Kalman primitive (filterpy) is external: update(z) leaves an        *)
(* arbitrary first state coordinate x[0] drawn from XVals.                 *)
(***************************************************************************)
EXTENDS Integers, Sequences, FiniteSets, TLC

MaxOrder  == 2      \* the orders p, q, d and the fitted k_ar, k_ma range over 0..MaxOrder
MaxN      == 5      \* at most this many rows in the trimmed table df
MaxX      == 2      \* x[0] after an update ranges over 1..MaxX

Orders == 0..MaxOrder
XVals  == 1..MaxX

(***************************************************************************)
(* Strings                                                                 *)
(***************************************************************************)
Digits == <<"0", "1", "2", "3", "4", "5", "6", "7", "8", "9">>

RECURSIVE str(_)
str(n) == IF n < 10 THEN <<Digits[n + 1]>>
          ELSE str(n \div 10) \o <<Digits[(n % 10) + 1]>>

\* Python: sub in s
Contains(sub, s) ==
    \E k \in 0..(Len(s) - Len(sub)) : SubSeq(s, k + 1, k + Len(sub)) = sub

AR_DOT == <<"a", "r", ".">>
MA_DOT == <<"m", "a", ".">>
AR_L   == <<"a", "r", ".", "L">>
MA_L   == <<"m", "a", ".", "L">>

ar_name(k) == AR_L \o str(k)      \* f'ar.L{k}'
ma_name(k) == MA_L \o str(k)      \* f'ma.L{k}'

\* column names of the data table: the exogenous regressors are user-named,
\* and a name may happen to contain an AR or MA marker
X1       == <<"x", "1">>
GAMMA_L1 == <<"g", "a", "m", "m", "a", ".", "L", "1">>
BAR_L1   == <<"b", "a", "r", ".", "L", "1">>

ExogColumns == <<X1, GAMMA_L1, BAR_L1>>

\* a list of exogenous columns, in table order
ExogLists == {SelectSeq(ExogColumns, LAMBDA col : col \in S) :
                 S \in SUBSET {ExogColumns[k] : k \in 1..Len(ExogColumns)}}

\* the endog argument: a list of column names
Endogs == {<< >>, <<"y">>, <<"y", "y2">>}

CONST  == <<"c", "o", "n", "s", "t">>
SIGMA2 == <<"s", "i", "g", "m", "a", "2">>

\* get_ARMA_test: dict(zip(res.param_names, res.params)) of an ARIMA fit of
\* order (k_ar, 0, k_ma) on the exogenous columns xs. The fit names its
\* parameters const, one per exogenous column, ar.L1.., ma.L1.., sigma2; the
\* fitted value under the k-th key is modelled by its identity k + 1.
param_names_of(k_ar, k_ma, xs) ==
    <<CONST>> \o xs \o [k \in 1..k_ar |-> ar_name(k)]
              \o [k \in 1..k_ma |-> ma_name(k)] \o <<SIGMA2>>

get_ARMA_test(k_ar, k_ma, xs) ==
    LET names == param_names_of(k_ar, k_ma, xs)
    IN [k \in 1..Len(names) |-> [name |-> names[k], value |-> k + 1]]

Lookup(ap, name) == (CHOOSE k \in 1..Len(ap) : ap[k].name = name)

(***************************************************************************)
(* set_up_kalman_filter: parameter extraction                              *)
(***************************************************************************)
Keys(ap) == [k \in 1..Len(ap) |-> ap[k].name]

IsAR(col) == Contains(AR_DOT, col)
IsMA(col) == Contains(MA_DOT, col)

ar_params(param_names)        == SelectSeq(param_names, IsAR)
ma_parmas(param_names)        == SelectSeq(param_names, IsMA)
exo_params(param_names, exog) ==
    SelectSeq(param_names, LAMBDA col : \E e \in 1..Len(exog) : exog[e] = col)

\* variant: the exogenous group's size is not checked
asserts_pass_noexo(endog_, p_, q_, d_, param_names, exog_) ==
    /\ Len(endog_) = 1
    /\ Len(ar_params(param_names)) = p_
    /\ Len(ma_parmas(param_names)) = q_

\* assert len(endog) == 1; assert len(ar_params) == p; ... == q; ... == d
asserts_pass(endog_, p_, q_, d_, param_names, exog_) ==
    /\ Len(endog_) = 1
    /\ Len(ar_params(param_names)) = p_
    /\ Len(ma_parmas(param_names)) = q_
    /\ Len(exo_params(param_names, exog_)) = d_

chain(param_names, exog_) ==
    ar_params(param_names) \o ma_parmas(param_names) \o exo_params(param_names, exog_)

ma_bool_mask(sv) == [c \in 1..Len(sv) |-> Contains(MA_L, sv[c])]
ar_bool_mask(sv) == [c \in 1..Len(sv) |-> Contains(AR_L, sv[c])]

(***************************************************************************)
(* set_up_kalman_filter: transition matrix T                               *)
(***************************************************************************)
\* {item: arima_params[item] for item in state_vars}: a dictionary keeps one
\* entry per distinct key, in order of first occurrence
RECURSIVE reorder(_, _)
reorder(ap, sv) ==
    IF sv = << >> THEN << >>
    ELSE LET front == reorder(ap, SubSeq(sv, 1, Len(sv) - 1))
             item  == sv[Len(sv)]
         IN IF \E k \in 1..Len(front) : front[k].name = item
            THEN front
            ELSE Append(front, ap[Lookup(ap, item)])

Values(ap) == [k \in 1..Len(ap) |-> ap[k].value]

\* range(1, p): the lags 1 .. p-1
ar_T(sv, p_) ==
    [k \in 1..(p_ - 1) |-> [c \in 1..Len(sv) |-> IF sv[c] = ar_name(k) THEN 1 ELSE 0]]

\* range(1, q + 1): the lags 1 .. q
ma_T(sv, q_) ==
    [k \in 1..q_ |-> [c \in 1..Len(sv) |-> IF sv[c] = ma_name(k) THEN 1 ELSE 0]]

exo_T(sv, exo) ==
    [e \in 1..Len(exo) |-> [c \in 1..Len(sv) |-> IF exo[e] = sv[c] THEN 1 ELSE 0]]

\* np.append([A], [B], axis=1)[0]: the rows of B below the rows of A; numpy
\* raises ValueError unless B has rows (np.array([]) has one dimension less)
\* and both have the same number of columns
np_append(A, B) ==
    IF ~A.ok \/ B = << >> \/ Len(A.rows[1]) # Len(B[1])
    THEN [ok |-> FALSE, rows |-> << >>]
    ELSE [ok |-> TRUE, rows |-> A.rows \o B]

build_T(ap, sv, exo, p_, q_, d_) ==
    LET T0 == [ok |-> TRUE, rows |-> <<Values(reorder(ap, sv))>>]
        T1 == IF p_ > 1 THEN np_append(T0, ar_T(sv, p_)) ELSE T0
        T2 == IF q_ > 0 THEN np_append(T1, ma_T(sv, q_)) ELSE T1
        T3 == IF d_ > 0 THEN np_append(T2, exo_T(sv, exo)) ELSE T2
    IN T3

(***************************************************************************)
(* set_up_kalman_filter: observation tensor zs                             *)
(***************************************************************************)
\* src/utils.get_ARlags(series, lags, ret_org_ser=False): the number of
\* lagged columns it returns
get_ARlags(lags) == lags

\* columns of df = ar_df.join(ma_df).join(data[exog])
df_columns(p_, q_, exog_) == get_ARlags(p_) + get_ARlags(q_) + Len(exog_)

\* df.values[r, c]: the trimmed table has no missing value; entries are
\* kept distinct and nonzero so that a copied or zeroed entry is visible
df_values(r, c) == 10 * r + c

Count(mask) == Cardinality({c \in 1..Len(mask) : mask[c]})

\* df.values.reshape((len(df), no_params, 1)) raises ValueError when the
\* sizes differ; zs[:, ma_bool_mask] = np.zeros((len(df), q, 1)) raises
\* ValueError unless the zeros broadcast to the selection
zs_ok(sv, p_, q_, d_, exog_) ==
    /\ df_columns(p_, q_, exog_) = p_ + q_ + d_
    /\ (Count(ma_bool_mask(sv)) = q_ \/ q_ = 1)

build_zs(n, sv) ==
    [r \in 1..n |-> [c \in 1..Len(sv) |->
        IF ma_bool_mask(sv)[c] THEN 0 ELSE df_values(r, c)]]

(***************************************************************************)
(* State                                                                   *)
(***************************************************************************)
VARIABLES
    pc,            \* position: "start", "AssertionError", "ValueError", "built",
                   \*   "loop", "ShapeError", "IndexError", "done"
    p, q, d,       \* the declared orders
    endog, exog,   \* the endogenous column list, the exogenous column names
    arima_params,  \* the fitted parameters, name -> value, in dictionary order
    state_vars,    \* local of set_up_kalman_filter, returned to the caller
    T,             \* the transition matrix, a sequence of rows
    zs,            \* the buffer of the observation tensor, one sequence per row
    zs_off,        \* the local name zs of kalman_filter views zs[zs_off:]
    z,             \* the row of the buffer the local z views (1-based)
    i,             \* the loop counter of kalman_filter
    x,             \* kfilter.x[0]
    X_out, P_out, X_pred, P_pred, LL_out,   \* output lists: the step that appended
    used,          \* history: the buffer row each update was run against
    resid,         \* history: per loop step, the injection it performed
    rows           \* history: local row indices the last loop step indexed

vars == <<pc, p, q, d, endog, exog, arima_params, state_vars, T, zs, zs_off, z,
          i, x, X_out, P_out, X_pred, P_pred, LL_out, used, resid, rows>>

inputs  == <<p, q, d, endog, exog, arima_params>>
outputs == <<X_out, P_out, X_pred, P_pred, LL_out>>
history == <<used, resid, rows>>

no_params == p + q + d

Init ==
    /\ pc = "start"
    /\ p = 0 /\ q = 0 /\ d = 0
    /\ endog = << >> /\ exog = << >> /\ arima_params = << >>
    /\ state_vars = << >> /\ T = << >> /\ zs = << >>
    /\ zs_off = 0 /\ z = 0 /\ i = 0 /\ x = 0
    /\ X_out = << >> /\ P_out = << >> /\ X_pred = << >> /\ P_pred = << >>
    /\ LL_out = << >>
    /\ used = << >> /\ resid = << >> /\ rows = {}

(***************************************************************************)
(* set_up_kalman_filter(p, q, d, ..., arima_params, endog, exog)           *)
(***************************************************************************)
set_up_kalman_filter ==
    /\ pc = "start"
    /\ \E p_ \in Orders, q_ \in Orders, d_ \in Orders, endog_ \in Endogs,
          exog_ \in ExogLists,
          k_ar \in Orders, k_ma \in Orders, xs \in ExogLists :
        LET ap == get_ARMA_test(k_ar, k_ma, xs)
            sv == chain(Keys(ap), exog_)
            Tm == build_T(ap, sv, exo_params(Keys(ap), exog_), p_, q_, d_)
        IN /\ p' = p_ /\ q' = q_ /\ d' = d_
           /\ endog' = endog_ /\ exog' = exog_ /\ arima_params' = ap
           /\ IF ~asserts_pass(endog_, p_, q_, d_, Keys(ap), exog_)
              THEN /\ pc' = "AssertionError"
                   /\ UNCHANGED <<state_vars, T, zs>>
              ELSE IF ~Tm.ok
              THEN /\ pc' = "ValueError"
                   /\ state_vars' = sv
                   /\ UNCHANGED <<T, zs>>
              ELSE IF ~zs_ok(sv, p_, q_, d_, exog_)
              THEN /\ pc' = "ValueError"
                   /\ state_vars' = sv
                   /\ T' = Tm.rows
                   /\ UNCHANGED zs
              ELSE \E n \in 1..MaxN :
                   /\ pc' = "built"
                   /\ state_vars' = sv
                   /\ T' = Tm.rows
                   /\ zs' = build_zs(n, sv)
    /\ UNCHANGED <<zs_off, z, i, x, outputs, history>>

(***************************************************************************)
(* kalman_filter(xdim, zdim, p, q, d, x0, P0, zs, T, Q, Z, H, state_vars)  *)
(***************************************************************************)
\* len(zs) of the local name zs, a view of the buffer from row zs_off on
len_zs == Len(zs) - zs_off

\* the buffer row (1-based) behind the local index j (0-based)
row_of(j) == zs_off + j + 1

\* variant: range(0, len(zs))
loop_end_short(n) == n

\* range(0, len(zs) + 1): the loop runs while i < this
loop_end(n) == n + 1

\* variant: the guard admits one step too many
inject_guard_late(i_, q_, n) == i_ + q_ - 1 < n

\* if i + q-1 + 1 < len(zs)
inject_guard(i_, q_, n) == i_ + q_ - 1 + 1 < n

\* if i + 1 < len(zs)
advance_guard(i_, n) == i_ + 1 < n

\* variant: the injection starts at row i
inject_row_early(i_, iz) == i_ + iz

\* the row index of zs[i + iz + 1, ...]
inject_row(i_, iz) == i_ + iz + 1

\* variant: the partial masks select the AR lags
ma_partial_mask_ar(sv, q_) ==
    [ix \in 1..q_ |-> [c \in 1..Len(sv) |-> sv[c] = ar_name(ix)]]

\* ma_partial_mask[ix - 1], for ix in range(1, q + 1)
ma_partial_mask(sv, q_) ==
    [ix \in 1..q_ |-> [c \in 1..Len(sv) |-> sv[c] = ma_name(ix)]]

\* a[mask][0]: the first selected entry
first_masked(mask) == CHOOSE c \in 1..Len(mask) :
                          mask[c] /\ \A b \in 1..(c - 1) : ~mask[b]

\* residual = zs[i + 1, ma_bool_mask][0] - kfilter.x[0]
residual_of(buf, j, sv, x0) == buf[row_of(j)][first_masked(ma_bool_mask(sv))] - x0

\* for iz in range(0, q): zs[i + iz + 1, ma_partial_mask[iz]] = residual
inject(buf, i_, q_, sv, residual) ==
    [r \in 1..Len(buf) |-> [c \in 1..Len(buf[r]) |->
        IF \E iz \in 0..(q_ - 1) :
              r = row_of(inject_row(i_, iz)) /\ ma_partial_mask(sv, q_)[iz + 1][c]
        THEN residual ELSE buf[r][c]]]

\* lines 93-111: the outputs are empty, z views row 0, zs is rebound to zs[1:]
kalman_filter ==
    /\ pc = "built"
    /\ pc' = "loop"
    /\ z' = 1
    /\ zs_off' = 1
    /\ i' = 0
    /\ X_out' = << >> /\ P_out' = << >> /\ X_pred' = << >> /\ P_pred' = << >>
    /\ LL_out' = << >>
    /\ UNCHANGED <<inputs, state_vars, T, zs, x, history>>

\* one iteration of the loop, lines 113-139
loop_step ==
    /\ pc = "loop"
    /\ i < loop_end(len_zs)
    /\ IF Len(T) # no_params
       THEN \* kfilter.F = T is not square (xdim = zdim = no_params): the first
            \* predict/update raises in the linear algebra and nothing is returned
            /\ pc' = "ShapeError"
            /\ UNCHANGED <<zs, z, i, x, outputs, history>>
       ELSE \E xu \in XVals :
            LET doinj    == q > 0 /\ inject_guard(i, q, len_zs)
                doadv    == advance_guard(i, len_zs)
                indexed  == (IF doinj
                             THEN {i + 1} \cup {inject_row(i, iz) : iz \in 0..(q - 1)}
                             ELSE {})
                            \cup (IF doadv THEN {i + 1} ELSE {})
                \* every index is >= 1 here, so Python's negative wrap-around
                \* never applies; a[mask][0] needs a selected entry
                inrange  == /\ indexed \subseteq 0..(len_zs - 1)
                            /\ doinj => Count(ma_bool_mask(state_vars)) > 0
                residual == residual_of(zs, i + 1, state_vars, xu)
            IN /\ rows' = indexed
               /\ IF ~inrange
                  THEN /\ pc' = "IndexError"
                       /\ UNCHANGED <<zs, z, i, x, outputs, used, resid>>
                  ELSE /\ pc' = "loop"
                       /\ x' = xu
                       /\ used' = Append(used, [row |-> z, val |-> zs[z]])
                       /\ zs' = IF doinj
                                THEN inject(zs, i, q, state_vars, residual)
                                ELSE zs
                       /\ resid' = Append(resid,
                                     [inj |-> doinj, x |-> xu,
                                      r |-> IF doinj THEN residual ELSE 0])
                       /\ z' = IF doadv THEN row_of(i + 1) ELSE z
                       /\ X_pred' = Append(X_pred, i)
                       /\ P_pred' = Append(P_pred, i)
                       /\ X_out' = Append(X_out, i)
                       /\ P_out' = Append(P_out, i)
                       /\ LL_out' = Append(LL_out, i)
                       /\ i' = i + 1
    /\ UNCHANGED <<inputs, state_vars, T, zs_off>>

\* lines 141-153: one more predict after the loop, then return
final_predict ==
    /\ pc = "loop"
    /\ ~(i < loop_end(len_zs))
    /\ \E xp \in XVals : x' = xp
    /\ X_pred' = Append(X_pred, i)
    /\ P_pred' = Append(P_pred, i)
    /\ pc' = "done"
    /\ UNCHANGED <<inputs, state_vars, T, zs, zs_off, z, i, X_out, P_out, LL_out,
                   history>>

Next == set_up_kalman_filter \/ kalman_filter \/ loop_step \/ final_predict

Spec == Init /\ [][Next]_vars

(***************************************************************************)
(* Properties                                                              *)
(***************************************************************************)
\* set_up_kalman_filter returned its tuple
Returned == pc \in {"built", "loop", "ShapeError", "IndexError", "done"}

\* every assertion of set_up_kalman_filter passed
Accepted == pc \notin {"start", "AssertionError"}

Slots(name) == {c \in 1..Len(state_vars) : state_vars[c] = name}

\* C1: a completed run of kalman_filter over a tensor of N >= 1 rows makes N
\* predict+update steps and one final predict: X_out, P_out and LL_out have
\* length N, X_pred and P_pred have length N + 1.
C1_OutputLengths ==
    pc = "done" =>
        /\ Len(used) = Len(zs)
        /\ Len(X_out) = Len(zs) /\ Len(P_out) = Len(zs) /\ Len(LL_out) = Len(zs)
        /\ Len(X_pred) = Len(zs) + 1 /\ Len(P_pred) = Len(zs) + 1

C1_Witness == pc = "done" /\ Len(zs) >= 3 /\ q > 0 /\ Len(X_pred) = Len(zs) + 1

\* C2: for q > 0 and every step s whose injection guard passed, the MA slot of
\* lag k (k in 1..q) of row s + k holds the residual of step s from then on,
\* and it held that value whenever row s + k was the observation of an update.
C2_InjectionHeldUntilConsumed ==
    \A s \in 0..(Len(resid) - 1) :
        resid[s + 1].inj =>
            \A k \in 1..q : \A c \in Slots(ma_name(k)) :
                /\ zs[row_of(s + k)][c] = resid[s + 1].r
                /\ \A u \in 1..Len(used) :
                       used[u].row = row_of(s + k) => used[u].val[c] = resid[s + 1].r

\* two injecting steps with different residuals have both written into row 2,
\* which an update has then consumed
C2_Witness ==
    /\ q = 2 /\ Len(resid) >= 2 /\ resid[1].inj /\ resid[2].inj
    /\ resid[1].r # resid[2].r
    /\ Slots(ma_name(1)) # {} /\ Slots(ma_name(2)) # {}
    /\ \E u \in 1..Len(used) : used[u].row = row_of(2)

\* C3: for p + q + d >= 1, the transition matrix T that set_up_kalman_filter
\* returns has no_params rows and no_params columns, p = 0 included.
C3_TSquare ==
    (Returned /\ p + q + d >= 1) =>
        /\ Len(T) = no_params
        /\ \A r \in 1..Len(T) : Len(T[r]) = no_params

\* C4: the residual a step injects is the next row's stored AR-masked
\* observation minus x[0] after that step's update.
C4_ResidualFromNextObservation ==
    \A s \in 0..(Len(resid) - 1) :
        (resid[s + 1].inj /\ Count(ar_bool_mask(state_vars)) > 0) =>
            resid[s + 1].r =
                zs[row_of(s + 1)][first_masked(ar_bool_mask(state_vars))] - resid[s + 1].x

\* C5: for every accepted input, state_vars has p + q + d entries, no name
\* twice, the AR mask is true on exactly the first p positions, the MA mask on
\* exactly the next q, and the last d positions are the exogenous names.
C5_MasksPartition ==
    Accepted =>
        /\ Len(state_vars) = p + q + d
        /\ \A a, b \in 1..Len(state_vars) : a # b => state_vars[a] # state_vars[b]
        /\ \A c \in 1..Len(state_vars) :
              /\ ar_bool_mask(state_vars)[c] <=> c \in 1..p
              /\ ma_bool_mask(state_vars)[c] <=> c \in (p + 1)..(p + q)
              /\ (\E e \in 1..Len(exog) : exog[e] = state_vars[c])
                    <=> c \in (p + q + 1)..(p + q + d)

\* C6: set_up_kalman_filter ends in an assertion error exactly when endog does
\* not hold exactly one name or a group's size differs from its declared
\* order, and then neither T nor zs (nor state_vars) has been built.
C6_AssertionExactly ==
    pc # "start" =>
        /\ pc = "AssertionError" <=>
              \/ Len(endog) # 1
              \/ Len(ar_params(Keys(arima_params))) # p
              \/ Len(ma_parmas(Keys(arima_params))) # q
              \/ Len(exo_params(Keys(arima_params), exog)) # d
        /\ pc = "AssertionError" => (T = << >> /\ zs = << >> /\ state_vars = << >>)

C6_Witness ==
    /\ pc = "AssertionError"
    /\ Len(endog) = 1
    /\ Len(ar_params(Keys(arima_params))) = p
    /\ Len(ma_parmas(Keys(arima_params))) = q
    /\ Len(exo_params(Keys(arima_params), exog)) # d

\* C7: kalman_filter changes no entry of zs outside the MA-masked slots: every
\* other entry keeps its construction-time value, and with q = 0 the whole
\* tensor is as constructed.
C7_OnlyMASlotsChange ==
    Returned =>
        /\ \A r \in 1..Len(zs) : \A c \in 1..Len(zs[r]) :
              ~ma_bool_mask(state_vars)[c] => zs[r][c] = df_values(r, c)
        /\ q = 0 => zs = build_zs(Len(zs), state_vars)

C7_Witness ==
    /\ pc = "done" /\ q > 0 /\ p > 0 /\ d > 0
    /\ zs # build_zs(Len(zs), state_vars)

\* C8: the update of step s is run against row s of the tensor passed in:
\* every row is consumed once, in index order.
C8_UpdateAgainstOwnRow ==
    \A s \in 1..Len(used) : used[s].row = s

\* C9: for p >= 1, in T the row at the state position of lag k >= 2 of the AR
\* group and of the MA group has its single 1 in the column of lag k - 1 of
\* the same group.
C9_ShiftBlocks ==
    (Returned /\ p >= 1) =>
        \A k \in 2..MaxOrder :
            /\ \A c \in Slots(ar_name(k)) : \A b \in 1..Len(T[c]) :
                   T[c][b] = (IF state_vars[b] = ar_name(k - 1) THEN 1 ELSE 0)
            /\ \A c \in Slots(ma_name(k)) : \A b \in 1..Len(T[c]) :
                   T[c][b] = (IF state_vars[b] = ma_name(k - 1) THEN 1 ELSE 0)

\* C10: no loop step indexes a row outside the tensor: a step injects only
\* when rows i+1 .. i+q exist and indexes only those, z advances to row i+1
\* only when it exists, and the tail steps still run, reusing the last z.
C10_NoRowOutOfBounds ==
    /\ pc # "IndexError"
    /\ rows \subseteq 0..(len_zs - 1)
    /\ \A s \in 0..(Len(resid) - 1) :
          /\ resid[s + 1].inj => (s + 1)..(s + q) \subseteq 0..(len_zs - 1)
          /\ (s + 1 = Len(resid) /\ resid[s + 1].inj) => rows = (s + 1)..(s + q)
          /\ (s + 1 = Len(resid) /\ ~resid[s + 1].inj) => rows \subseteq {s + 1}
    /\ \A s \in 1..(Len(used) - 1) :
          \/ used[s + 1].row = row_of(s) /\ s <= len_zs - 1
          \/ used[s + 1].row = used[s].row /\ ~(s <= len_zs - 1)
    /\ pc = "done" => Len(used) = len_zs + 1

C10_Witness ==
    /\ pc = "done" /\ q = 2 /\ Len(zs) = MaxN
    /\ resid[1].inj /\ ~resid[Len(resid)].inj
    /\ used[Len(used)].row = used[Len(used) - 1].row

====
